---- MODULE Spec2Model ----
(***************************************************************************)
(* Screen Time Tracker: the background service worker (background.js) and  *)
(* the popup's full clear (popup.js), as a state machine.                  *)
(*                                                                         *)
(* Every `await` of a chrome.* call is a suspension point: the handler is  *)
(* put into `handlers` with the place it waits at, and another handler may *)
(* run before it resumes.  An `await` of an async function that returns    *)
(* without reaching a chrome.* call only yields to the microtask queue, so *)
(* the handler goes on in the same step.                                   *)
(*                                                                         *)
(* The clock counts units of half a second; Date.now() is `now`.           *)
(*                                                                         *)
(* The umbrella customizer page (part_000) is modelled in a section of its *)
(* own, on the variables state, domElements, tasks, pageTime and pageLeft. *)
(***************************************************************************)
EXTENDS Integers, FiniteSets, Sequences, Bags, TLC

(* ---------------------------- bounds ----------------------------------- *)
\* events the environment delivers, in the whole model and in the tracker's
MaxEvents == 3
MaxTrackerEvents == 3
\* events of the focus scenarios
MaxFocusEvents == 4
\* events of the activation scenarios
MaxActivationEvents == 4
\* moves of the wall clock
MaxClockSteps == 2
\* handlers suspended at the same time
MaxInFlight == 2
\* store accesses that fail
MaxFailures == 1
\* domains in the store the popup reports on
MaxSites == 12

(* ------------------------- program constants --------------------------- *)
\* clock units in the 1000 ms of `sessionDuration / 1000`
Sec == 2
\* 24 * 60 * 60 * 1000 ms, the cleanup gate and the length of a UTC day
Day == 24 * 60 * 60 * Sec
\* cutoffDate.setDate(cutoffDate.getDate() - 90)
RetentionDays == 90
\* popup.js: .slice(0, 10), and the 7 and 30 days of the week and month ranges
TopCount == 10
WeekDays == 7
MonthDays == 30

\* null for currentTabId / sessionStartTime (both falsy in the guards)
NoTab == 0
NullTime == 0
\* null (and the empty hostname) for a domain: falsy in `if (domain ...)`
NoDomain == ""

Domains == {"a.com", "b.com"}
Tabs == {1, 2}
\* the tab of the whole-program runs
OneTab == {1}
\* how far the wall clock may move between two steps
ShortJumps == {1, Sec}
Jumps == {1, Sec, Day, (RetentionDays + 1) * Day}

VARIABLES
  now,               \* Date.now()
  currentTabId, currentDomain, sessionStartTime, isWindowFocused,
  activityData, dailyData, lastCleanup,   \* chrome.storage.local
  handlers,          \* bag of suspended handlers
  evLeft, clockLeft, failLeft,            \* what the bounded environment may still do
  ledger,            \* history: seconds computed by flushes, per domain
  flushed,           \* history: a flush of the session now open has been written
  lost,              \* history: a flush of the session now open failed at the store
  idle,              \* history: focus was lost and no session was started since
  cleared,           \* history: the popup cleared the store
  cont,              \* history: the continuous session being followed
  lastStep,          \* history: what the last step did
  dashboard,         \* popup: what renderDashboard was last given
  lastActivated,     \* history: the tab of the latest TabActivated, where followed
  state,             \* umbrella page: the `state` object
  domElements,       \* umbrella page: what the document shows
  tasks,             \* umbrella page: pending timers and file reads, in order of creation
  pageTime,          \* umbrella page: milliseconds since the page loaded
  pageLeft           \* umbrella page: what the bounded user may still do

trackerVars == << now, currentTabId, currentDomain, sessionStartTime, isWindowFocused,
                  activityData, dailyData, lastCleanup, handlers,
                  evLeft, clockLeft, failLeft,
                  ledger, flushed, lost, idle, cleared, cont, lastStep, dashboard,
                  lastActivated >>

pageVars == << state, domElements, tasks, pageTime, pageLeft >>

vars == << trackerVars, pageVars >>

(* ------------------- umbrella customizer (part_000) -------------------- *)
(* The customization page is a second program of the repository.  Its      *)
(* handlers run to completion; what is left pending between them is a      *)
(* setTimeout callback, a FileReader read or the load of the umbrella      *)
(* image.  `pageTime` counts milliseconds.  The page's markup is not part  *)
(* of the source: PageLoaded takes the markup to show the image of the     *)
(* initial colour with no loader, and the file picker to open only from    *)
(* the upload button (lines 63-65).                                        *)

\* what the bounded user of the page may do, and for how long
MaxPageEvents == 3
MaxPageTicks == 6

Colors == {"pink", "blue", "yellow"}

\* lines 6-22
umbrellaConfig ==
  [c \in Colors |->
     [theme |-> "theme-" \o c,
      imageSrc |-> CASE c = "pink" -> "assets/images/Pink umbrella.png"
                     [] c = "blue" -> "assets/images/Blue umbrella.png"
                     [] c = "yellow" -> "assets/images/Yello umbrella.png",
      buttonColor |-> "--" \o c \o "-btn"]]

\* state.uploadedLogo = null
NoLogo == ""

\* the delays of the two setTimeout calls, and the step of the page's clock
ColorDelay == 800
UploadDelay == 600
PageTick == ColorDelay - UploadDelay

\* lines 163 and 171
validTypes == {"image/png", "image/jpeg", "image/jpg"}
maxSize == 5 * 1024 * 1024

\* event.target.files[0]: undefined when the picker gave no file
NoFile == [name |-> "", type |-> "", size |-> 0]
Files ==
  { [name |-> "logo.png", type |-> "image/png", size |-> 1024],
    [name |-> "notes.pdf", type |-> "application/pdf", size |-> 1024],
    [name |-> "huge.jpg", type |-> "image/jpeg", size |-> maxSize + 1] }

toUpperCase(s) ==
  CASE s = "logo.png" -> "LOGO.PNG"
    [] s = "notes.pdf" -> "NOTES.PDF"
    [] s = "huge.jpg" -> "HUGE.JPG"
    [] OTHER -> s

\* reader.readAsDataURL(file): e.target.result
DataURL(file) == "data:" \o file.type \o ";" \o file.name

\* lines 26-30
InitialState == [currentColor |-> "blue", uploadedLogo |-> NoLogo, uploadedFileName |-> ""]

\* lines 133-138
showUmbrellaLoader(d) ==
  [d EXCEPT !.umbrellaImageHidden = TRUE,
            !.loaderOverlayVisible = TRUE,
            !.logoOverlayVisible = FALSE]

\* lines 141-150
hideUmbrellaLoader(d, s) ==
  [d EXCEPT !.umbrellaImageHidden = FALSE,
            !.loaderOverlayVisible = FALSE,
            !.logoOverlayVisible = IF s.uploadedLogo # NoLogo THEN TRUE ELSE @]

\* lines 104-110
updateTheme(d, s) == [d EXCEPT !.bodyClass = umbrellaConfig[s.currentColor].theme]

\* lines 208-217
displayLogo(d, s) ==
  [d EXCEPT !.logoPreviewSrc = s.uploadedLogo,
            !.logoOverlayVisible = TRUE,
            !.fileNameText = toUpperCase(s.uploadedFileName),
            !.fileDisplayColor = umbrellaConfig[s.currentColor].buttonColor]

\* lines 231-239
showLoading(d, s, filename) ==
  [d EXCEPT !.fileNameText = toUpperCase(filename),
            !.uploadButtonDisplay = "none",
            !.fileDisplayVisible = TRUE,
            !.removeButtonVisibility = "hidden",
            !.fileDisplayColor = umbrellaConfig[s.currentColor].buttonColor]

\* lines 242-244
hideLoading(d) == [d EXCEPT !.removeButtonVisibility = "visible"]

\* lines 246-249
showError(d, message) == [d EXCEPT !.errorMessage = message]

\* lines 251-254
hideError(d) == [d EXCEPT !.errorMessage = ""]

\* lines 257-269
updateUI(d, s) ==
  IF s.uploadedLogo # NoLogo
  THEN [d EXCEPT !.uploadButtonDisplay = "none",
                 !.fileDisplayVisible = TRUE,
                 !.logoOverlayVisible = TRUE]
  ELSE [d EXCEPT !.uploadButtonDisplay = "flex",
                 !.fileDisplayVisible = FALSE,
                 !.logoOverlayVisible = FALSE]

\* the document as the markup gives it, before init() runs
Markup ==
  [ bodyClass |-> umbrellaConfig[InitialState.currentColor].theme,
    activeSwatch |-> InitialState.currentColor,
    umbrellaImageSrc |-> umbrellaConfig[InitialState.currentColor].imageSrc,
    umbrellaImageHidden |-> FALSE,
    imageLoading |-> FALSE,
    imageHandlers |-> FALSE,
    loaderOverlayVisible |-> FALSE,
    loaderIconFill |-> umbrellaConfig[InitialState.currentColor].buttonColor,
    logoOverlayVisible |-> FALSE,
    logoPreviewSrc |-> "",
    uploadButtonDisplay |-> "flex",
    uploadButtonColor |-> umbrellaConfig[InitialState.currentColor].buttonColor,
    fileDisplayVisible |-> FALSE,
    fileDisplayColor |-> umbrellaConfig[InitialState.currentColor].buttonColor,
    fileNameText |-> "",
    fileInputValue |-> "",
    removeButtonVisibility |-> "visible",
    errorMessage |-> "" ]

\* lines 272 and 51-54: DOMContentLoaded has run init()
PageLoaded ==
  /\ state = InitialState
  /\ domElements = updateUI(Markup, InitialState)
  /\ tasks = << >>
  /\ pageTime = 0
  /\ pageLeft = MaxPageEvents

\* a pending callback: a timer with the time it is due, or a file read
Task(kind, due, src, file) == [kind |-> kind, due |-> due, src |-> src, file |-> file]
Timers == {"colorTimer", "uploadTimer"}
IsDue(i) == tasks[i].kind \in Timers /\ tasks[i].due <= pageTime

\* timers run in the order of their due time, then of their creation
RunsNext(i) == IsDue(i) /\ \A j \in 1..(i - 1) : ~IsDue(j)
Drop(seq, i) == SubSeq(seq, 1, i - 1) \o SubSeq(seq, i + 1, Len(seq))

PageEvent ==
  /\ pageLeft > 0
  /\ pageLeft' = pageLeft - 1
  /\ UNCHANGED pageTime

\* the clock of the page moves on once every due timer has run
PageTimePasses ==
  /\ pageTime < MaxPageTicks * PageTick
  /\ \A i \in 1..Len(tasks) : ~IsDue(i)
  /\ pageTime' = pageTime + PageTick
  /\ UNCHANGED << state, domElements, tasks, pageLeft >>
  /\ UNCHANGED trackerVars

\* lines 75-101 with updateUmbrellaImage, lines 113-119, up to setTimeout
handleColorChange(selectedColor) ==
  /\ PageEvent
  /\ IF selectedColor = state.currentColor
     THEN UNCHANGED << state, domElements, tasks >>
     ELSE LET s == [state EXCEPT !.currentColor = selectedColor]
              config == umbrellaConfig[selectedColor]
              d1 == [domElements EXCEPT !.uploadButtonColor = config.buttonColor,
                                        !.fileDisplayColor = config.buttonColor,
                                        !.loaderIconFill = config.buttonColor,
                                        !.activeSwatch = selectedColor]
          IN /\ state' = s
             /\ domElements' = showUmbrellaLoader(updateTheme(d1, s))
             /\ tasks' = Append(tasks, Task("colorTimer", pageTime + ColorDelay,
                                            config.imageSrc, NoFile))
  /\ UNCHANGED trackerVars

\* lines 119-129: the delayed swap of the image
ColorTimerFires(i) ==
  /\ tasks[i].kind = "colorTimer"
  /\ RunsNext(i)
  /\ domElements' = [domElements EXCEPT !.umbrellaImageSrc = tasks[i].src,
                                        !.imageLoading = TRUE,
                                        !.imageHandlers = TRUE]
  /\ tasks' = Drop(tasks, i)
  /\ UNCHANGED << state, pageTime, pageLeft >>
  /\ UNCHANGED trackerVars

\* lines 122-128: the image has loaded or failed to load
ImageSettles ==
  /\ domElements.imageLoading
  /\ domElements' = IF domElements.imageHandlers
                    THEN [hideUmbrellaLoader(domElements, state) EXCEPT !.imageLoading = FALSE]
                    ELSE [domElements EXCEPT !.imageLoading = FALSE]
  /\ UNCHANGED << state, tasks, pageTime, pageLeft >>
  /\ UNCHANGED trackerVars

\* lines 153-205, up to reader.readAsDataURL
handleFileUpload(file) ==
  /\ PageEvent
  /\ domElements.uploadButtonDisplay = "flex"
  /\ LET d0 == hideError(domElements)
     IN IF file = NoFile
        THEN domElements' = d0 /\ UNCHANGED tasks
        ELSE IF file.type \notin validTypes
        THEN /\ domElements' = [showError(d0, "Please upload a .png or .jpg file only.")
                                  EXCEPT !.fileInputValue = ""]
             /\ UNCHANGED tasks
        ELSE IF file.size > maxSize
        THEN /\ domElements' = [showError(d0, "File size must be less than 5MB.")
                                  EXCEPT !.fileInputValue = ""]
             /\ UNCHANGED tasks
        ELSE /\ domElements' = showUmbrellaLoader(
                                 showLoading([d0 EXCEPT !.fileInputValue = file.name],
                                             state, file.name))
             /\ tasks' = Append(tasks, Task("read", 0, "", file))
  /\ UNCHANGED state
  /\ UNCHANGED trackerVars

\* reader.onload, lines 183-194, up to setTimeout
ReadLoads(i) ==
  /\ tasks[i].kind = "read"
  /\ state' = [state EXCEPT !.uploadedLogo = DataURL(tasks[i].file),
                            !.uploadedFileName = tasks[i].file.name]
  /\ tasks' = Append(Drop(tasks, i), Task("uploadTimer", pageTime + UploadDelay, "", NoFile))
  /\ UNCHANGED << domElements, pageTime, pageLeft >>
  /\ UNCHANGED trackerVars

\* reader.onerror, lines 197-202
ReadFails(i) ==
  /\ tasks[i].kind = "read"
  /\ domElements' =
       [hideUmbrellaLoader(hideLoading(showError(domElements,
                             "Error reading file. Please try again.")), state)
          EXCEPT !.fileInputValue = ""]
  /\ tasks' = Drop(tasks, i)
  /\ UNCHANGED << state, pageTime, pageLeft >>
  /\ UNCHANGED trackerVars

\* lines 189-193: the delayed end of the upload
UploadTimerFires(i) ==
  /\ tasks[i].kind = "uploadTimer"
  /\ RunsNext(i)
  /\ domElements' = hideUmbrellaLoader(hideLoading(displayLogo(domElements, state)), state)
  /\ tasks' = Drop(tasks, i)
  /\ UNCHANGED << state, pageTime, pageLeft >>
  /\ UNCHANGED trackerVars

\* lines 220-228; the remove button is inside the file display
handleLogoRemove ==
  /\ PageEvent
  /\ domElements.fileDisplayVisible
  /\ domElements.removeButtonVisibility = "visible"
  /\ LET s == [state EXCEPT !.uploadedLogo = NoLogo, !.uploadedFileName = ""]
     IN /\ state' = s
        /\ domElements' = hideError(updateUI([domElements EXCEPT !.fileInputValue = ""], s))
  /\ UNCHANGED tasks
  /\ UNCHANGED trackerVars

(* ------------------------------ maps ----------------------------------- *)
EmptyMap == << >>

Put(m, k, v) == [x \in (DOMAIN m) \cup {k} |-> IF x = k THEN v ELSE m[x]]

Without(m, ks) == [x \in (DOMAIN m) \ ks |-> m[x]]

RECURSIVE SumOver(_, _)
SumOver(m, ks) ==
  IF ks = {} THEN 0
  ELSE LET k == CHOOSE x \in ks : TRUE
       IN m[k] + SumOver(m, ks \ {k})

SumMap(m) == SumOver(m, DOMAIN m)

(* --------------------------- pure helpers ------------------------------ *)
\* getDateKey: the UTC calendar day of a timestamp.  The YYYY-MM-DD string
\* orders as the day number does, so the day number stands for the key.
getDateKey(timestamp) == timestamp \div Day

\* the property name a domain value is used as: obj[null] is obj["null"]
Key(domain) == IF domain = NoDomain THEN "null" ELSE domain

\* saveCurrentSession, lines 48-50: the guard
CanFlush ==
  /\ currentDomain # NoDomain
  /\ sessionStartTime # NullTime
  /\ isWindowFocused

\* lines 52-53 without the division by 1000: milliseconds taken for seconds
durationUndivided == now - sessionStartTime

\* lines 52-53
durationInSeconds == (now - sessionStartTime) \div Sec

\* the flush goes on to the store (no early return at 49 or 57)
FlushPasses == CanFlush /\ durationInSeconds >= 1

\* lines 66-85 with `=` for the `+=` of line 85: the day's entry is overwritten
UpsertActivityOverwriting(ad, domain, dur, dateKey, t) ==
  LET k == Key(domain)
      old == IF k \in DOMAIN ad
             THEN ad[k]
             ELSE [totalTime |-> 0, visits |-> 0, lastVisit |-> t,
                   dailyBreakdown |-> EmptyMap]
  IN Put(ad, k, [totalTime |-> old.totalTime + dur,
                 visits |-> old.visits + 1,
                 lastVisit |-> t,
                 dailyBreakdown |-> Put(old.dailyBreakdown, dateKey, dur)])

\* lines 66-85: upsert of activityData[domain]
UpsertActivity(ad, domain, dur, dateKey, t) ==
  LET k == Key(domain)
      old == IF k \in DOMAIN ad
             THEN ad[k]
             ELSE [totalTime |-> 0, visits |-> 0, lastVisit |-> t,
                   dailyBreakdown |-> EmptyMap]
      oldDay == IF dateKey \in DOMAIN old.dailyBreakdown
                THEN old.dailyBreakdown[dateKey] ELSE 0
  IN Put(ad, k, [totalTime |-> old.totalTime + dur,
                 visits |-> old.visits + 1,
                 lastVisit |-> t,
                 dailyBreakdown |-> Put(old.dailyBreakdown, dateKey, oldDay + dur)])

\* lines 87-99: upsert of dailyData[dateKey]
UpsertDaily(dd, domain, dur, dateKey) ==
  LET k == Key(domain)
      old == IF dateKey \in DOMAIN dd
             THEN dd[dateKey]
             ELSE [totalTime |-> 0, domains |-> EmptyMap]
      oldDom == IF k \in DOMAIN old.domains THEN old.domains[k] ELSE 0
  IN Put(dd, dateKey, [totalTime |-> old.totalTime + dur,
                       domains |-> Put(old.domains, k, oldDom + dur)])

\* line 199 without its return: every sweep goes through
GateOpen == TRUE

\* cleanupOldData, line 199: the once-a-day gate lets the sweep through
GatePassed == ~(now - lastCleanup < Day)

\* lines 204-206
cutoffKey == getDateKey(now - RetentionDays * Day)

\* lines 210-215: the keys the loop deletes
OldKeys(dd) == {k \in DOMAIN dd : k < cutoffKey}

(* ------------------------ suspended handlers --------------------------- *)
\* One record shape for every handler; a handler uses the fields it needs.
\* start, afterClose and retry are history: the session that held a second
\* or more when the handler's event arrived, the one its flush covers;
\* forDomain is history: the domain that was active when dur was computed.
Handler(kind, pc) ==
  [kind |-> kind, pc |-> pc, tabId |-> NoTab, url |-> NoDomain,
   dur |-> 0, dateKey |-> 0, start |-> NullTime, forDomain |-> NoDomain,
   afterClose |-> FALSE, retry |-> FALSE,
   newA |-> EmptyMap, newD |-> EmptyMap, newLC |-> 0]

Pending == BagToSet(handlers)
Spawn(h) == handlers (+) SetToBag({h})
Retire(h) == handlers (-) SetToBag({h})
Move(h, g) == (handlers (-) SetToBag({h})) (+) SetToBag({g})
InFlight == BagCardinality(handlers)

\* the sync prefix of saveCurrentSession, lines 48-61, up to `await get`
FlushLocals(h) ==
  [h EXCEPT !.pc = "get", !.dur = durationInSeconds,
            !.dateKey = getDateKey(now), !.start = sessionStartTime,
            !.forDomain = currentDomain,
            !.afterClose = flushed, !.retry = lost]

(* ------------------------------ history -------------------------------- *)
NoStep == [name |-> "init", at |-> 0, afterClose |-> FALSE, retry |-> FALSE]
Step(name) == lastStep' = [NoStep EXCEPT !.name = name]

NoCont == [t0 |-> NullTime, sum |-> 0, open |-> FALSE, elapsed |-> -1]
NotIdle == [on |-> FALSE, ledger |-> [d \in Domains |-> 0]]

\* the popup has rendered nothing yet
NoDashboard == [shown |-> FALSE, failed |-> FALSE]

\* a call of saveCurrentSession: what it computed, for which domain
LedgerFlush ==
  ledger' = IF FlushPasses
            THEN [ledger EXCEPT ![currentDomain] = @ + durationInSeconds]
            ELSE ledger

\* a lookup found no domain: from here on an idle tracker is to record nothing
StaysIdle == idle' = IF idle.on THEN [idle EXCEPT !.ledger = ledger] ELSE idle

\* a step that leaves the tracker and its history, but for idle, alone
TrackerKept ==
  /\ UNCHANGED << currentTabId, currentDomain, sessionStartTime >>
  /\ UNCHANGED << isWindowFocused, ledger, flushed, lost, cont >>

\* a handler other than the alarm's flushes the session followed: it ends
CloseCont ==
  cont' = IF cont.open
          THEN [t0 |-> NullTime, open |-> FALSE, elapsed |-> now - cont.t0,
                sum |-> cont.sum + (IF FlushPasses THEN durationInSeconds ELSE 0)]
          ELSE cont

(* --------------------------- session state ----------------------------- *)
\* startTracking, lines 106-110
startTracking(tabId, domain) ==
  /\ currentTabId' = tabId
  /\ currentDomain' = domain
  /\ sessionStartTime' = now

\* lines 125-127 and 145-147
clearTracking ==
  /\ currentTabId' = NoTab
  /\ currentDomain' = NoDomain
  /\ sessionStartTime' = NullTime

\* startTracking with its history: a session opens
Start(tabId, domain) ==
  /\ startTracking(tabId, domain)
  /\ cont' = [t0 |-> now, sum |-> 0, open |-> isWindowFocused, elapsed |-> -1]
  /\ idle' = NotIdle
  /\ flushed' = FALSE /\ lost' = FALSE

\* the session is cleared, with its history
Clear ==
  /\ clearTracking
  /\ cont' = NoCont
  /\ flushed' = FALSE /\ lost' = FALSE
  /\ UNCHANGED idle

SessionUnchanged == UNCHANGED << currentTabId, currentDomain, sessionStartTime >>
StoreUnchanged == UNCHANGED << activityData, dailyData, lastCleanup >>
Resumes == UNCHANGED << now, evLeft, clockLeft, failLeft, dashboard, lastActivated, pageVars >>

\* a step that leaves the tracker and its history alone
TrackerUnchanged ==
  /\ SessionUnchanged
  /\ UNCHANGED << isWindowFocused, ledger, flushed, lost, idle, cont >>

\* lines 4-7 as the worker's script starts, with the environment's budget
FreshWorker ==
  /\ currentTabId = NoTab
  /\ currentDomain = NoDomain
  /\ sessionStartTime = NullTime
  /\ isWindowFocused = TRUE
  /\ clockLeft = MaxClockSteps
  /\ failLeft = MaxFailures
  /\ flushed = FALSE
  /\ lost = FALSE
  /\ idle = NotIdle
  /\ cleared = FALSE
  /\ cont = NoCont
  /\ lastStep = NoStep
  /\ dashboard = NoDashboard
  /\ lastActivated = NoTab
  /\ PageLoaded

\* initializeStorage, lines 22-26, at installation
Installed ==
  /\ now = Day
  /\ activityData = EmptyMap
  /\ dailyData = EmptyMap
  /\ lastCleanup = now
  /\ ledger = [d \in Domains |-> 0]

BaseInit == FreshWorker /\ Installed

\* lines 226 and 229-230: the worker's script has issued its two reads
Init ==
  /\ BaseInit
  /\ handlers = SetToBag({Handler("cleanup", "cget"), Handler("init", "query")})
  /\ evLeft = MaxEvents

\* The store after one second of a.com was flushed a second after
\* installation (lines 66-99 on the empty store), read 91 days later
FirstSession == Day + Sec
Aged ==
  /\ now = FirstSession + (RetentionDays + 1) * Day
  /\ activityData = UpsertActivity(EmptyMap, "a.com", 1,
                                    getDateKey(FirstSession), FirstSession)
  /\ dailyData = UpsertDaily(EmptyMap, "a.com", 1, getDateKey(FirstSession))
  /\ lastCleanup = Day
  /\ ledger = [d \in Domains |-> IF d = "a.com" THEN 1 ELSE 0]

\* the worker starts on the aged store: a state Spec reaches by
\* QueryResolves, ClockAdvance(Sec), PeriodicTick, StorageGet, AlarmSaved,
\* ClockAdvance(91 days), ProcessStart, here with the budget of a new run
InitRestarted ==
  /\ FreshWorker /\ Aged
  /\ handlers = SetToBag({Handler("cleanup", "cget"), Handler("init", "query")})
  /\ evLeft = MaxEvents

(* ------------------------------ events --------------------------------- *)
Arrives ==
  /\ evLeft > 0
  /\ InFlight < MaxInFlight
  /\ evLeft' = evLeft - 1
  /\ UNCHANGED << now, clockLeft, failLeft, dashboard, pageVars >>

\* the wall clock moves by d; a chrome.* call resolves within seconds, so
\* the clock moves further only while no handler is suspended
ClockAdvance(d) ==
  /\ clockLeft > 0
  /\ d > Sec => handlers = EmptyBag
  /\ clockLeft' = clockLeft - 1
  /\ now' = now + d
  /\ Step("other")
  /\ TrackerUnchanged /\ StoreUnchanged
  /\ UNCHANGED << handlers, evLeft, failLeft, cleared, dashboard, lastActivated, pageVars >>

\* chrome.tabs.onActivated, lines 113-119, up to its first chrome.* await
TabActivated(tab) ==
  /\ Arrives
  /\ handlers' = IF FlushPasses
                 THEN Spawn(FlushLocals([Handler("activated", "get") EXCEPT !.tabId = tab]))
                 ELSE Spawn([Handler("activated", "tabsGet") EXCEPT !.tabId = tab])
  /\ LedgerFlush /\ CloseCont
  /\ Step("other")
  /\ SessionUnchanged /\ StoreUnchanged
  /\ UNCHANGED << isWindowFocused, flushed, lost, idle, cleared >>

\* the activation, with and without the history of which tab came last
TabActivates(tab) == TabActivated(tab) /\ UNCHANGED lastActivated
TabActivatesInOrder(tab) == TabActivated(tab) /\ lastActivated' = tab

\* lines 141-148: the new session of onUpdated
UpdatedRestart(tabId, domain) ==
  IF domain # NoDomain /\ isWindowFocused
  THEN Start(tabId, domain)
  ELSE Clear

\* chrome.tabs.onUpdated, lines 135-150, for a changeInfo with a url
TabUpdated(tab, domain) ==
  /\ tab = currentTabId
  /\ Arrives
  /\ LedgerFlush
  /\ Step("other")
  /\ IF FlushPasses
     THEN /\ handlers' = Spawn(FlushLocals([Handler("updated", "get")
                                 EXCEPT !.tabId = tab, !.url = domain]))
          /\ CloseCont
          /\ SessionUnchanged
          /\ UNCHANGED << flushed, lost, idle >>
     ELSE /\ UpdatedRestart(tab, domain)
          /\ UNCHANGED handlers
  /\ StoreUnchanged
  /\ UNCHANGED << isWindowFocused, cleared, lastActivated >>

\* chrome.tabs.onUpdated for a tab other than currentTabId: the test of
\* line 136 fails and the handler does nothing
TabUpdatedElsewhere(tab, domain) ==
  /\ tab # currentTabId
  /\ Arrives
  /\ Step("other")
  /\ TrackerUnchanged /\ StoreUnchanged
  /\ UNCHANGED << handlers, cleared, lastActivated >>

\* lines 157-158, with their history: the tracker is to stay idle
FocusLostEnd ==
  /\ isWindowFocused' = FALSE
  /\ sessionStartTime' = NullTime
  /\ UNCHANGED << currentTabId, currentDomain >>
  /\ idle' = [on |-> TRUE, ledger |-> ledger']
  /\ flushed' = FALSE /\ lost' = FALSE

\* chrome.windows.onFocusChanged with WINDOW_ID_NONE, lines 154-158
WindowFocusLost ==
  /\ Arrives
  /\ LedgerFlush
  /\ Step("other")
  /\ IF FlushPasses
     THEN /\ handlers' = Spawn(FlushLocals(Handler("focusLost", "get")))
          /\ CloseCont
          /\ SessionUnchanged
          /\ UNCHANGED << isWindowFocused, flushed, lost, idle >>
     ELSE /\ FocusLostEnd
          /\ CloseCont
          /\ UNCHANGED handlers
  /\ StoreUnchanged
  /\ UNCHANGED << cleared, lastActivated >>

\* chrome.windows.onFocusChanged with a window id, lines 159-168
WindowFocusGained ==
  /\ Arrives
  /\ isWindowFocused' = TRUE
  /\ handlers' = Spawn([Handler("focusGained", "query") EXCEPT
                          !.start = IF FlushPasses THEN sessionStartTime ELSE NullTime])
  /\ Step("other")
  /\ SessionUnchanged /\ StoreUnchanged
  /\ UNCHANGED << ledger, flushed, lost, idle, cleared, cont, lastActivated >>

\* chrome.alarms.onAlarm for "saveActivity", lines 183-191: the flush is
\* not awaited, so the restart at 187-189 runs before the flush resumes
PeriodicTick ==
  /\ Arrives
  /\ handlers' = IF FlushPasses
                 THEN Spawn(FlushLocals(Handler("alarm", "get")))
                 ELSE handlers
  /\ LedgerFlush
  /\ cont' = IF cont.open /\ FlushPasses
             THEN [cont EXCEPT !.sum = @ + durationInSeconds]
             ELSE cont
  /\ IF currentDomain # NoDomain /\ isWindowFocused
     THEN sessionStartTime' = now /\ flushed' = FALSE /\ lost' = FALSE
     ELSE UNCHANGED << sessionStartTime, flushed, lost >>
  /\ Step("other")
  /\ StoreUnchanged
  /\ UNCHANGED << currentTabId, currentDomain, isWindowFocused, idle, cleared,
                  lastActivated >>

(* ------------------- saveCurrentSession resumes ------------------------ *)
\* line 61 resolves; lines 63-99 run and line 102 issues the write.
\* currentDomain is read here, after the suspension.
StorageGet(h) ==
  /\ h.pc = "get"
  /\ Resumes
  /\ handlers' = Move(h, [h EXCEPT
         !.pc = "set",
         !.newA = UpsertActivity(activityData, currentDomain, h.dur, h.dateKey, now),
         !.newD = UpsertDaily(dailyData, currentDomain, h.dur, h.dateKey)])
  /\ Step("other")
  /\ TrackerUnchanged /\ StoreUnchanged
  /\ UNCHANGED cleared

\* line 61 or line 102 rejects: saveCurrentSession throws, nothing catches
\* it, and the handler that awaits it ends there
StorageFails(h) ==
  /\ h.pc \in {"get", "set"}
  /\ failLeft > 0
  /\ failLeft' = failLeft - 1
  /\ handlers' = Retire(h)
  /\ lost' = (lost \/ h.start = sessionStartTime)
  /\ Step("other")
  /\ SessionUnchanged /\ StoreUnchanged
  /\ UNCHANGED << now, evLeft, clockLeft, isWindowFocused,
                  ledger, flushed, idle, cleared, cont, dashboard, lastActivated, pageVars >>

\* line 102 resolves: the write takes effect and saveCurrentSession returns
Written(h) ==
  /\ h.pc = "set"
  /\ Resumes
  /\ activityData' = h.newA
  /\ dailyData' = h.newD
  /\ lastStep' = [NoStep EXCEPT !.name = "flush.set",
                                !.afterClose = h.afterClose, !.retry = h.retry]
  /\ UNCHANGED << lastCleanup, ledger, cleared >>

\* history: the session now open has a written flush
MarkFlushed(h) ==
  /\ flushed' = (flushed \/ h.start = sessionStartTime)
  /\ UNCHANGED lost

\* onActivated after line 115: line 119 issues chrome.tabs.get
ActivatedSaved(h) ==
  /\ h.kind = "activated"
  /\ Written(h)
  /\ handlers' = Move(h, [Handler("activated", "tabsGet") EXCEPT
                            !.tabId = h.tabId, !.start = h.start])
  /\ MarkFlushed(h)
  /\ SessionUnchanged
  /\ UNCHANGED << isWindowFocused, idle, cont >>

\* onUpdated after line 138: lines 141-148
UpdatedSaved(h) ==
  /\ h.kind = "updated"
  /\ Written(h)
  /\ handlers' = Retire(h)
  /\ UpdatedRestart(h.tabId, h.url)
  /\ UNCHANGED isWindowFocused

\* onFocusChanged after line 156: lines 157-158
FocusLostSaved(h) ==
  /\ h.kind = "focusLost"
  /\ Written(h)
  /\ handlers' = Retire(h)
  /\ FocusLostEnd
  /\ cont' = NoCont

\* the alarm's flush, which nothing awaits
AlarmSaved(h) ==
  /\ h.kind = "alarm"
  /\ Written(h)
  /\ handlers' = Retire(h)
  /\ MarkFlushed(h)
  /\ SessionUnchanged
  /\ UNCHANGED << isWindowFocused, idle, cont >>

(* ------------------------- tab lookups resume -------------------------- *)
\* line 119 resolves with a tab whose url has hostname `domain`: 120-128
TabsGetResolves(h, domain) ==
  /\ h.kind = "activated" /\ h.pc = "tabsGet"
  /\ Resumes
  /\ handlers' = Retire(h)
  /\ IF domain # NoDomain /\ isWindowFocused
     THEN Start(h.tabId, domain)
     ELSE Clear
  /\ Step("other")
  /\ StoreUnchanged
  /\ UNCHANGED << isWindowFocused, ledger, cleared >>

\* line 119 rejects (no tab with that id): lines 129-131 log it
TabsGetRejects(h) ==
  /\ h.kind = "activated" /\ h.pc = "tabsGet"
  /\ Resumes
  /\ handlers' = Retire(h)
  /\ Step("activated.notFound")
  /\ TrackerUnchanged /\ StoreUnchanged
  /\ UNCHANGED cleared

\* chrome.tabs.query resolves with an active tab whose url has a hostname:
\* lines 169-174 of onFocusChanged, lines 232-236 at startup
QueryResolves(h, tab, domain) ==
  /\ h.pc = "query"
  /\ Resumes
  /\ handlers' = Retire(h)
  /\ Start(tab, domain)
  /\ Step("other")
  /\ StoreUnchanged
  /\ UNCHANGED << isWindowFocused, ledger, cleared >>

\* chrome.tabs.query resolves with no tab, or with a tab without a domain
QueryNoDomain(h) ==
  /\ h.pc = "query"
  /\ Resumes
  /\ handlers' = Retire(h)
  /\ Step("other")
  /\ TrackerKept /\ StaysIdle /\ StoreUnchanged
  /\ UNCHANGED cleared

\* chrome.tabs.query rejects: lines 176-178, 239-241 log it
QueryRejects(h) ==
  /\ h.pc = "query"
  /\ Resumes
  /\ handlers' = Retire(h)
  /\ Step("other")
  /\ TrackerKept /\ StaysIdle /\ StoreUnchanged
  /\ UNCHANGED cleared

(* --------------------------- retention sweep --------------------------- *)
\* cleanupOldData, lines 195-222, from the read's result to the write's issue
CleanupGet(h) ==
  /\ h.pc = "cget"
  /\ Resumes
  /\ IF ~GatePassed
     THEN /\ handlers' = Retire(h)
          /\ Step("cleanup.gated")
     ELSE IF OldKeys(dailyData) = {}
     THEN /\ handlers' = Retire(h)
          /\ lastStep' = [NoStep EXCEPT !.name = "cleanup.kept", !.at = now]
     ELSE /\ handlers' = Move(h, [h EXCEPT !.pc = "cset",
                                   !.newD = Without(dailyData, OldKeys(dailyData)),
                                   !.newLC = now])
          /\ Step("other")
  /\ TrackerUnchanged /\ StoreUnchanged
  /\ UNCHANGED cleared

\* line 218 resolves: the write takes effect
CleanupSet(h) ==
  /\ h.pc = "cset"
  /\ Resumes
  /\ handlers' = Retire(h)
  /\ dailyData' = h.newD
  /\ lastCleanup' = h.newLC
  /\ lastStep' = [NoStep EXCEPT !.name = "cleanup.swept", !.at = h.newLC]
  /\ TrackerUnchanged
  /\ UNCHANGED << activityData, cleared >>

(* ------------------------------ startup -------------------------------- *)
\* The idle worker was stopped and is started again: lines 4-7, 226, 229-230
ProcessStart ==
  /\ handlers = EmptyBag
  /\ Arrives
  /\ Clear
  /\ isWindowFocused' = TRUE
  /\ handlers' = SetToBag({Handler("cleanup", "cget"), Handler("init", "query")})
  /\ Step("other")
  /\ StoreUnchanged
  /\ lastActivated' = NoTab
  /\ UNCHANGED << ledger, cleared >>

(* --------------------------- popup: full clear ------------------------- *)
\* clearAllData, lines 231-237: confirmed, chrome.storage.local.clear issued
ClearAllData ==
  /\ Arrives
  /\ handlers' = Spawn(Handler("clear", "clr"))
  /\ Step("other")
  /\ TrackerUnchanged /\ StoreUnchanged
  /\ UNCHANGED << cleared, lastActivated >>

\* line 237 resolves: every key is gone (read back as {} and 0); 238 issued
ClearDone(h) ==
  /\ h.pc = "clr"
  /\ Resumes
  /\ handlers' = Move(h, [h EXCEPT !.pc = "clrset", !.newLC = now])
  /\ activityData' = EmptyMap
  /\ dailyData' = EmptyMap
  /\ lastCleanup' = 0
  /\ cleared' = TRUE
  /\ Step("other")
  /\ TrackerUnchanged

\* line 238 resolves
ClearSet(h) ==
  /\ h.pc = "clrset"
  /\ Resumes
  /\ handlers' = Retire(h)
  /\ activityData' = EmptyMap
  /\ dailyData' = EmptyMap
  /\ lastCleanup' = h.newLC
  /\ Step("other")
  /\ TrackerUnchanged
  /\ UNCHANGED cleared

(* --------------------------- popup: report ----------------------------- *)
Ranges == {"today", "week", "month"}

\* processData, lines 41-53
startDate(range) ==
  IF range = "today" THEN getDateKey(now)
  ELSE IF range = "week" THEN getDateKey(now - WeekDays * Day)
  ELSE getDateKey(now - MonthDays * Day)

\* lines 62 and 90-91
InRange(k, range) == k >= startDate(range) /\ k <= getDateKey(now)

\* lines 61-65: the keys domainStats gets
RangeDays(dd, range) == {k \in DOMAIN dd : InRange(k, range)}
RangeDomains(dd, range) == UNION {DOMAIN dd[k].domains : k \in RangeDays(dd, range)}

\* lines 66-76: domainStats[domain].time
RECURSIVE TimeOver(_, _, _)
TimeOver(dd, domain, ks) ==
  IF ks = {} THEN 0
  ELSE LET k == CHOOSE x \in ks : TRUE
       IN (IF domain \in DOMAIN dd[k].domains THEN dd[k].domains[domain] ELSE 0)
          + TimeOver(dd, domain, ks \ {k})

\* Math.ceil(a / b) for positive b; the code's quotient is a double
Ceil(a, b) == (a + b - 1) \div b

\* lines 85-99: visitsInRange of one domain
RECURSIVE VisitsOver(_, _)
VisitsOver(domainData, ks) ==
  IF ks = {} THEN 0
  ELSE LET k == CHOOSE x \in ks : TRUE
       IN Ceil(domainData.visits * domainData.dailyBreakdown[k], domainData.totalTime)
          + VisitsOver(domainData, ks \ {k})

visitsInRange(ad, domain, range) ==
  IF domain \in DOMAIN ad
  THEN VisitsOver(ad[domain], {k \in DOMAIN ad[domain].dailyBreakdown :
                                InRange(k, range) /\ ad[domain].dailyBreakdown[k] > 0})
  ELSE 0

\* lines 56-105
domainStats(ad, dd, range) ==
  [domain \in RangeDomains(dd, range) |->
     [time |-> TimeOver(dd, domain, RangeDays(dd, range)),
      visits |-> visitsInRange(ad, domain, range),
      lastVisit |-> IF domain \in DOMAIN ad /\ ad[domain].lastVisit # 0
                    THEN ad[domain].lastVisit ELSE now]]

\* line 109: the entries by time, largest first.  Among equal times sort
\* keeps the insertion order, which a map here does not carry: CHOOSE fixes
\* one order, and nothing below depends on which.
RECURSIVE SortedByTime(_, _)
SortedByTime(stats, ds) ==
  IF ds = {} THEN << >>
  ELSE LET d == CHOOSE x \in ds : \A y \in ds : stats[y].time <= stats[x].time
       IN << [domain |-> d, stat |-> stats[d]] >> \o SortedByTime(stats, ds \ {d})

\* line 110: .slice(0, n)
Slice(seq, n) == SubSeq(seq, 1, IF Len(seq) < n THEN Len(seq) ELSE n)

RECURSIVE SumStats(_, _, _)
SumStats(stats, field, ds) ==
  IF ds = {} THEN 0
  ELSE LET d == CHOOSE x \in ds : TRUE
       IN stats[d][field] + SumStats(stats, field, ds \ {d})

\* processData, lines 40-118
processData(ad, dd, range) ==
  LET stats == domainStats(ad, dd, range)
      sortedDomains == Slice(SortedByTime(stats, DOMAIN stats), TopCount)
  IN [totalTime |-> SumStats(stats, "time", DOMAIN stats),
      totalVisits |-> SumStats(stats, "visits", DOMAIN stats),
      uniqueSites |-> Len(sortedDomains),
      topSites |-> sortedDomains]

\* loadDashboard, lines 26-33: the read resolves and the report is rendered
LoadDashboard(range) ==
  /\ dashboard' = [shown |-> TRUE, failed |-> FALSE, range |-> range,
                    data |-> processData(activityData, dailyData, range)]
  /\ UNCHANGED << now, handlers, evLeft, clockLeft, failLeft, cleared, lastStep,
                  lastActivated, pageVars >>
  /\ TrackerUnchanged /\ StoreUnchanged

\* lines 34-36: the read rejects, showError
LoadFails ==
  /\ dashboard' = [shown |-> FALSE, failed |-> TRUE]
  /\ UNCHANGED << now, handlers, evLeft, clockLeft, failLeft, cleared, lastStep,
                  lastActivated, pageVars >>
  /\ TrackerUnchanged /\ StoreUnchanged

(* ------------------------- specifications ------------------------------ *)
\* The whole program with one tab: the tracker, restarts of the worker, the
\* retention sweep and the popup's clear, seconds to months apart.
Next ==
  \/ \E d \in Jumps : ClockAdvance(d)
  \/ \E tab \in OneTab : TabActivates(tab)
  \/ \E tab \in OneTab, domain \in Domains \cup {NoDomain} : TabUpdated(tab, domain)
  \/ WindowFocusLost
  \/ WindowFocusGained
  \/ PeriodicTick
  \/ ProcessStart
  \/ ClearAllData
  \/ \E h \in Pending : StorageGet(h)
  \/ \E h \in Pending : StorageFails(h)
  \/ \E h \in Pending : ActivatedSaved(h)
  \/ \E h \in Pending : UpdatedSaved(h)
  \/ \E h \in Pending : FocusLostSaved(h)
  \/ \E h \in Pending : AlarmSaved(h)
  \/ \E h \in Pending, domain \in Domains \cup {NoDomain} : TabsGetResolves(h, domain)
  \/ \E h \in Pending : TabsGetRejects(h)
  \/ \E h \in Pending, tab \in OneTab, domain \in Domains : QueryResolves(h, tab, domain)
  \/ \E h \in Pending : QueryNoDomain(h)
  \/ \E h \in Pending : QueryRejects(h)
  \/ \E h \in Pending : CleanupGet(h)
  \/ \E h \in Pending : CleanupSet(h)
  \/ \E h \in Pending : ClearDone(h)
  \/ \E h \in Pending : ClearSet(h)

Spec == Init /\ [][Next]_vars

\* The whole program on a store that holds a day beyond the retention period
SpecRestarted == InitRestarted /\ [][Next]_vars

\* One life of the worker with two tabs, seconds apart, after the startup
\* sweep returned at its gate: no restart, no clear, nothing to sweep.
InitTracker ==
  /\ BaseInit
  /\ handlers = SetToBag({Handler("init", "query")})
  /\ evLeft = MaxTrackerEvents

NextTracker ==
  \/ \E d \in ShortJumps : ClockAdvance(d)
  \/ \E tab \in Tabs : TabActivates(tab)
  \/ \E tab \in Tabs, domain \in Domains \cup {NoDomain} : TabUpdated(tab, domain)
  \/ WindowFocusLost
  \/ WindowFocusGained
  \/ PeriodicTick
  \/ \E h \in Pending : StorageGet(h)
  \/ \E h \in Pending : StorageFails(h)
  \/ \E h \in Pending : ActivatedSaved(h)
  \/ \E h \in Pending : UpdatedSaved(h)
  \/ \E h \in Pending : FocusLostSaved(h)
  \/ \E h \in Pending : AlarmSaved(h)
  \/ \E h \in Pending, domain \in Domains \cup {NoDomain} : TabsGetResolves(h, domain)
  \/ \E h \in Pending : TabsGetRejects(h)
  \/ \E h \in Pending, tab \in Tabs, domain \in Domains : QueryResolves(h, tab, domain)
  \/ \E h \in Pending : QueryNoDomain(h)
  \/ \E h \in Pending : QueryRejects(h)

SpecTracker == InitTracker /\ [][NextTracker]_vars

\* The same life with focus changes and alarms as its only events.
InitFocus ==
  /\ BaseInit
  /\ handlers = SetToBag({Handler("init", "query")})
  /\ evLeft = MaxFocusEvents

NextFocus ==
  \/ \E d \in ShortJumps : ClockAdvance(d)
  \/ WindowFocusLost
  \/ WindowFocusGained
  \/ PeriodicTick
  \/ \E h \in Pending : StorageGet(h)
  \/ \E h \in Pending : StorageFails(h)
  \/ \E h \in Pending : FocusLostSaved(h)
  \/ \E h \in Pending : AlarmSaved(h)
  \/ \E h \in Pending, tab \in Tabs, domain \in Domains : QueryResolves(h, tab, domain)
  \/ \E h \in Pending : QueryNoDomain(h)
  \/ \E h \in Pending : QueryRejects(h)

SpecFocus == InitFocus /\ [][NextFocus]_vars

\* Activations of tabs that exist, and alarms, after the startup lookup found
\* no domain; the store does not fail.
InitActivation ==
  /\ BaseInit
  /\ handlers = EmptyBag
  /\ evLeft = MaxActivationEvents

NextActivation ==
  \/ \E d \in ShortJumps : ClockAdvance(d)
  \/ \E tab \in Tabs : TabActivatesInOrder(tab)
  \/ PeriodicTick
  \/ \E h \in Pending : StorageGet(h)
  \/ \E h \in Pending : ActivatedSaved(h)
  \/ \E h \in Pending : AlarmSaved(h)
  \/ \E h \in Pending, domain \in Domains \cup {NoDomain} : TabsGetResolves(h, domain)

SpecActivation == InitActivation /\ [][NextActivation]_vars

\* The same with navigations, in the tracked tab and in any other.
NextNavigation ==
  \/ \E d \in ShortJumps : ClockAdvance(d)
  \/ \E tab \in Tabs : TabActivatesInOrder(tab)
  \/ \E tab \in Tabs, domain \in Domains \cup {NoDomain} : TabUpdated(tab, domain)
  \/ \E tab \in Tabs, domain \in Domains \cup {NoDomain} : TabUpdatedElsewhere(tab, domain)
  \/ PeriodicTick
  \/ \E h \in Pending : StorageGet(h)
  \/ \E h \in Pending : ActivatedSaved(h)
  \/ \E h \in Pending : UpdatedSaved(h)
  \/ \E h \in Pending : AlarmSaved(h)
  \/ \E h \in Pending, domain \in Domains \cup {NoDomain} : TabsGetResolves(h, domain)

SpecNavigation == InitActivation /\ [][NextNavigation]_vars

\* The popup's report on a store that flushes of n sites have filled.
ReportTime == 100 * Day + Sec
SiteName(i) == "site" \o ToString(i) \o ".com"
Shapes == {"flat", "rising", "mixed"}
Layouts == {"today", "spread", "old"}

\* seconds of site i, and the day it was flushed on
SiteTime(i, shape) ==
  IF shape = "flat" THEN 1
  ELSE IF shape = "rising" THEN i
  ELSE 1 + ((i * 7) % 5)
SiteDay(i, layout) ==
  IF layout = "today" THEN getDateKey(ReportTime)
  ELSE IF layout = "spread" THEN getDateKey(ReportTime) - 4 * (i % 3)
  ELSE getDateKey(ReportTime) - (IF i % 2 = 0 THEN MonthDays + 10 ELSE 0)

\* the store after one flush for each of the sites 1..n (lines 66-99)
RECURSIVE SiteStore(_, _, _)
SiteStore(n, shape, layout) ==
  IF n = 0 THEN [a |-> EmptyMap, d |-> EmptyMap]
  ELSE LET prev == SiteStore(n - 1, shape, layout)
           day == SiteDay(n, layout)
       IN [a |-> UpsertActivity(prev.a, SiteName(n), SiteTime(n, shape), day, day * Day + Sec),
           d |-> UpsertDaily(prev.d, SiteName(n), SiteTime(n, shape), day)]

InitReport ==
  /\ FreshWorker
  /\ now = ReportTime
  /\ \E n \in 0..MaxSites, shape \in Shapes, layout \in Layouts :
        /\ activityData = SiteStore(n, shape, layout).a
        /\ dailyData = SiteStore(n, shape, layout).d
  /\ lastCleanup = ReportTime
  /\ ledger = [d \in Domains |-> 0]
  /\ handlers = EmptyBag
  /\ evLeft = 0

NextReport ==
  \/ \E range \in Ranges : LoadDashboard(range)
  \/ LoadFails

SpecReport == InitReport /\ [][NextReport]_vars

\* The umbrella page alone: the tracker is installed and at rest
InitPage ==
  /\ BaseInit
  /\ handlers = EmptyBag
  /\ evLeft = 0

NextPage ==
  \/ PageTimePasses
  \/ \E selectedColor \in Colors : handleColorChange(selectedColor)
  \/ \E file \in Files \cup {NoFile} : handleFileUpload(file)
  \/ handleLogoRemove
  \/ ImageSettles
  \/ \E i \in 1..Len(tasks) : ColorTimerFires(i)
  \/ \E i \in 1..Len(tasks) : UploadTimerFires(i)
  \/ \E i \in 1..Len(tasks) : ReadLoads(i)
  \/ \E i \in 1..Len(tasks) : ReadFails(i)

SpecPage == InitPage /\ [][NextPage]_vars

(* ------------------------------ claims --------------------------------- *)
Quiet == handlers = EmptyBag

\* activityData[d].totalTime, 0 for a domain the store does not hold
TotalTime(d) == IF d \in DOMAIN activityData THEN activityData[d].totalTime ELSE 0

\* C1: whenever no handler is suspended, no store access has failed and the
\* store was never cleared, the persisted totalTime of every domain is the sum
\* of the seconds the flushes computed for that domain.
C1_TotalIsSumOfFlushes ==
  (Quiet /\ failLeft = MaxFailures /\ ~cleared)
    => \A d \in Domains : TotalTime(d) = ledger[d]

\* C2: a flush called on a session that a completed flush has already
\* written, with no session opened in between, writes nothing to the store.
C2_SecondFlushWritesNothing ==
  ~(lastStep.name = "flush.set" /\ lastStep.afterClose)

\* C3: currentDomain and sessionStartTime are both set or both unset.
C3_DomainAndStartTogether ==
  (currentDomain = NoDomain) <=> (sessionStartTime = NullTime)

\* dailyData[k].domains[d] and activityData[d].dailyBreakdown[k], where present
DayOfDomain(k, d) ==
  IF k \in DOMAIN dailyData /\ d \in DOMAIN dailyData[k].domains
  THEN << TRUE, dailyData[k].domains[d] >> ELSE << FALSE, 0 >>
DomainOfDay(d, k) ==
  IF d \in DOMAIN activityData /\ k \in DOMAIN activityData[d].dailyBreakdown
  THEN << TRUE, activityData[d].dailyBreakdown[k] >> ELSE << FALSE, 0 >>
StoredDays ==
  DOMAIN dailyData \cup
  UNION {DOMAIN activityData[d].dailyBreakdown : d \in DOMAIN activityData}
StoredDomains ==
  DOMAIN activityData \cup UNION {DOMAIN dailyData[k].domains : k \in DOMAIN dailyData}

\* C4: for every domain d and date key k present in either map,
\* dailyData[k].domains[d] equals activityData[d].dailyBreakdown[k].
C4_MapsMirrorEachOther ==
  \A d \in StoredDomains, k \in StoredDays :
     (DayOfDomain(k, d)[1] \/ DomainOfDay(d, k)[1])
       => DayOfDomain(k, d) = DomainOfDay(d, k)

\* C5: in the persisted store every total is the sum of its breakdown:
\* activityData[d].totalTime over dailyBreakdown, dailyData[k].totalTime over
\* domains, whatever flushes, sweeps and clears interleave.
C5_TotalsAreSums ==
  /\ \A d \in DOMAIN activityData :
        activityData[d].totalTime = SumMap(activityData[d].dailyBreakdown)
  /\ \A k \in DOMAIN dailyData :
        dailyData[k].totalTime = SumMap(dailyData[k].domains)

\* C5 witness: a sweep has just removed the aged day from dailyData, and a
\* flush written since the restart has added a second day to a domain's
\* breakdown and a day of its own to dailyData
C5_Witness ==
  /\ lastStep.name = "cleanup.swept"
  /\ \E d \in DOMAIN activityData :
        Cardinality(DOMAIN activityData[d].dailyBreakdown) > 1
  /\ dailyData # EmptyMap

\* no lookup of a focus-gained handler is under way
NoFocusQuery == \A h \in Pending : h.kind # "focusGained"

\* C6: once the focus-lost handler has finished, no flush computes time for
\* any domain until some handler starts a session; a focus gain whose lookup
\* finds no domain leaves the tracker idle, and later alarms record nothing.
C6_NothingAccruesWhileIdle ==
  (idle.on /\ NoFocusQuery) => ledger = idle.ledger

\* C7: after a flush failed at the store, no flush of the same session (one
\* that covers the failed interval again) is written.
C7_FailedIntervalStaysLost ==
  ~(lastStep.name = "flush.set" /\ lastStep.retry)

\* C8: when the tab lookup of TabActivated fails, the tracker ends with
\* currentTabId, currentDomain and sessionStartTime all unset.
C8_NotFoundEndsIdle ==
  lastStep.name = "activated.notFound"
    => /\ currentTabId = NoTab
       /\ currentDomain = NoDomain
       /\ sessionStartTime = NullTime

\* C9: a sweep whose 24-hour gate passed leaves lastCleanup at the time it
\* ran, whether or not it removed an entry.
C9_SweepStampsLastCleanup ==
  lastStep.name \in {"cleanup.kept", "cleanup.swept"} => lastCleanup = lastStep.at

\* C10: a continuous focused session flushed by alarms only and then closed
\* has had floor(elapsed / 1000 ms) seconds computed for it in total.
C10_SessionTotalIsFloorOfElapsed ==
  cont.elapsed >= 0 => cont.sum = cont.elapsed \div Sec

\* the property names activityData may hold
StoreKeys == Domains \cup {"null"}

\* C11: no step of an execution without a full clear lowers the stored
\* totalTime of any domain, flushes overlapping between read and write included.
C11_TotalNeverDecreases ==
  [][\A d \in StoreKeys : TotalTime(d)' >= TotalTime(d)]_vars

\* clearAllData has run to its end
ClearCompleted == cleared /\ \A h \in Pending : h.kind # "clear"

\* the day of the session the aged store holds: flushed before the restart,
\* and so before every clear of a run that starts at the restart
AgedDay == getDateKey(FirstSession)

\* C12: once the full clear has completed, the store holds no time of a
\* session flushed before the clear; on the aged store, no time of AgedDay is
\* in activityData or dailyData, whatever flush had read the store before.
C12_NoPreClearDataAfterClear ==
  ClearCompleted =>
    /\ \A d \in DOMAIN activityData : AgedDay \notin DOMAIN activityData[d].dailyBreakdown
    /\ AgedDay \notin DOMAIN dailyData

\* a handler that calls saveCurrentSession runs its first step
FlushCall ==
  \/ \E tab \in Tabs : TabActivated(tab)
  \/ \E tab \in Tabs, domain \in Domains \cup {NoDomain} : TabUpdated(tab, domain)
  \/ WindowFocusLost
  \/ PeriodicTick

\* the window is unfocused, the domain or the start time is unset, or less
\* than a second has passed since the start time
FlushHasNothing ==
  \/ ~isWindowFocused
  \/ currentDomain = NoDomain
  \/ sessionStartTime = NullTime
  \/ now - sessionStartTime < Sec

\* the step suspends no further flush at the store
NoFlushSuspended ==
  \A h \in BagToSet(handlers') :
     h.pc \in {"get", "set"} => CopiesIn(h, handlers') <= CopiesIn(h, handlers)

\* C13: a flush called while the window is unfocused, the domain or the start
\* time is unset, or under a second has elapsed, leaves activityData, dailyData
\* and lastCleanup as they are and reaches no store access that could fail.
C13_FlushWithNothingIsNoOp ==
  [][(FlushHasNothing /\ FlushCall)
       => (UNCHANGED << activityData, dailyData, lastCleanup >> /\ NoFlushSuspended)]_vars

\* C13 witness: a session was closed half a second after it opened, nothing
\* was recorded for it and no handler is left
C13_Witness ==
  /\ cont.elapsed = 1
  /\ cont.sum = 0
  /\ activityData = EmptyMap
  /\ Quiet

\* C14: a sweep that reads the store less than 24 hours after lastCleanup
\* ends there: activityData, dailyData and lastCleanup stay as they are and no
\* write is issued, however old the stored dailyData entries are.
C14_GatedSweepChangesNothing ==
  [][\A h \in Pending :
       (now - lastCleanup < Day /\ CleanupGet(h))
         => (UNCHANGED << activityData, dailyData, lastCleanup >>
             /\ handlers' = Retire(h))]_vars

\* C14 witness: a sweep has just returned at its gate although dailyData
\* holds a day beyond the retention period
C14_Witness ==
  /\ lastStep.name = "cleanup.gated"
  /\ OldKeys(dailyData) # {}

\* the domains with time recorded on a day of the range
DomainsWithTime(range) ==
  {d \in UNION {DOMAIN dailyData[k].domains : k \in DOMAIN dailyData} :
     \E k \in DOMAIN dailyData :
        /\ startDate(range) <= k /\ k <= getDateKey(now)
        /\ d \in DOMAIN dailyData[k].domains
        /\ dailyData[k].domains[d] > 0}

\* C15: the report's uniqueSites is the number of distinct domains with time
\* recorded inside the selected range, however many there are; topSites holds
\* at most 10 domains, largest time first, none smaller than a domain left out.
C15_UniqueSitesCountsAllDomains ==
  dashboard.shown =>
    LET data == dashboard.data
        top == data.topSites
        shownDomains == {top[i].domain : i \in 1..Len(top)}
    IN /\ data.uniqueSites = Cardinality(DomainsWithTime(dashboard.range))
       /\ Len(top) <= TopCount
       /\ \A i \in 1..(Len(top) - 1) : top[i].stat.time >= top[i + 1].stat.time
       /\ shownDomains \subseteq DomainsWithTime(dashboard.range)
       /\ \A d \in DomainsWithTime(dashboard.range) \ shownDomains :
            \A i \in 1..Len(top) :
               TimeOver(dailyData, d, RangeDays(dailyData, dashboard.range))
                 <= top[i].stat.time

\* C16: when a flush resumes from its store read, the domain it adds its
\* seconds to is the domain that was active when the seconds were computed,
\* whatever happened to currentDomain in between.
C16_FlushCreditsItsOwnDomain ==
  [][\A h \in Pending : StorageGet(h) => currentDomain = h.forDomain]_vars

\* the handler h of an event starts a new session in this step
\* (startTracking is called)
StartsSession(h) ==
  /\ h.kind \in {"activated", "updated", "focusGained"}
  /\ \/ \E domain \in Domains : TabsGetResolves(h, domain)
     \/ \E tab \in Tabs, domain \in Domains : QueryResolves(h, tab, domain)
     \/ UpdatedSaved(h)
  /\ currentDomain' # NoDomain
  /\ sessionStartTime' = now

\* C17: a handler whose event arrived while a session held a second or more
\* of elapsed time, and which replaces that session by a new one, has flushed
\* it first: a flush of that session has been written, or the handler's own
\* flush of it is written in this step.  A focus gain while a session is
\* tracked is such a handler.
C17_ReplacedSessionIsFlushed ==
  [][\A h \in Pending :
       (StartsSession(h) /\ h.start # NullTime /\ h.start = sessionStartTime)
         => (flushed \/ h.pc = "set")]_vars

\* C18: when every handler of a sequence of TabActivated events and alarms
\* has completed with the window focused, a tracker that tracks a tab tracks
\* the tab activated last: no earlier activation has overwritten its session.
C18_TracksLatestActivation ==
  (Quiet /\ isWindowFocused /\ lastActivated # NoTab /\ currentTabId # NoTab)
    => currentTabId = lastActivated

\* chrome.tabs.onUpdated fires for the tab with a url of the domain
Navigates(tab, domain) ==
  TabUpdated(tab, domain) \/ TabUpdatedElsewhere(tab, domain)

\* C19: when the window is focused, every handler has completed and the
\* tracker is idle on the tab activated last, a navigation of that tab to a
\* url with a domain makes the tracker track that tab and domain.
C19_NavigationLeavesIdle ==
  [][\A tab \in Tabs, domain \in Domains :
       (/\ Navigates(tab, domain)
        /\ tab = lastActivated
        /\ Quiet /\ isWindowFocused
        /\ currentDomain = NoDomain)
         => (currentTabId' = tab /\ currentDomain' = domain)]_vars

\* C20: the write of a sweep leaves every dailyData entry at or after the
\* cutoff as the store holds it at that moment, a flush written since the
\* sweep's read included, and leaves no entry below the cutoff.
C20_SweepKeepsRecentEntries ==
  [][\A h \in Pending :
       CleanupSet(h)
         => /\ \A k \in DOMAIN dailyData :
                 k >= cutoffKey => (k \in DOMAIN dailyData' /\ dailyData'[k] = dailyData[k])
            /\ \A k \in DOMAIN dailyData' : k >= cutoffKey]_vars

\* C21: with no file read and no upload timer pending, the upload button is
\* hidden and the file display is visible exactly when a logo is uploaded.
UploadPending == \E i \in 1..Len(tasks) : tasks[i].kind \in {"read", "uploadTimer"}
C21_UploadControlsAgree ==
  ~UploadPending =>
    ((domElements.uploadButtonDisplay = "none" /\ domElements.fileDisplayVisible)
       <=> state.uploadedLogo # NoLogo)

\* C22: when the loader is hidden and the umbrella image is shown, the image
\* is the one configured for the current colour.
C22_ShownImageIsCurrentColor ==
  (~domElements.loaderOverlayVisible /\ ~domElements.umbrellaImageHidden)
    => domElements.umbrellaImageSrc = umbrellaConfig[state.currentColor].imageSrc

====
